---- MODULE Spec2Model ----
(***************************************************************************)
(* A model of the invoice RAG pipeline:                                    *)
(*   create_chunks.py   format_invoice_as_text, create_invoice_chunks      *)
(*   build_vectordb.py  build_invoice_vectordb                             *)
(*   query_rag.py       InvoiceRAG.retrieve / format_retrieved_context /   *)
(*                      generate_answer / chat                             *)
(* Each stage is a process of its own; SpecChunks, SpecBuild and SpecChat  *)
(* run one stage each and leave the variables of the others untouched.     *)
(***************************************************************************)
EXTENDS Integers, Sequences, FiniteSets, TLC

VARIABLES
    \* create_chunks.py
    dataFile,      \* content of data/invoices_data.json: a list of records
    cpc,           \* position of create_invoice_chunks
    invoices,      \* the list json.load returned
    chunks,        \* the list under construction
    outputFile,    \* content of data/chunks.json ("absent" until written)
    ccReturned,    \* the value create_invoice_chunks returned ("none" before)
    \* build_vectordb.py
    store,         \* the persisted collection under collection_name, or NoCollection
    bpc,           \* position of build_invoice_vectordb
    chunksFile,    \* content of data/chunks.json read by the build
    batch_size,    \* the batch_size argument
    bchunks,       \* the list json.load returned in the build
    bi,            \* the loop variable i of the batch loop, as a 0-based offset
    reported,      \* the count printed at the end of the build ("none" before)
    bReturned,     \* whether the build returned the collection
    run,           \* number of the build run (1 or 2)
    prior,         \* history: the collection as it was when the run started
    firstRun,      \* history: the collection as the first completed run left it
    raisedAt,      \* history: offset of the batch whose provider call raised
    \* query_rag.py
    collection,    \* the collection InvoiceRAG.__init__ opened
    session,       \* state of chat(): AwaitingInput, Processing, Terminated
    gaPc,          \* position inside generate_answer
    query,         \* the query argument of generate_answer
    n_results,     \* the n_results argument of generate_answer
    results,       \* what retrieve returned
    outcome,       \* how generate_answer ended: returned text or raised error
    prompt,        \* the prompt generate_answer built ("" before)
    llmCalls,      \* calls of llm.generate_content in the current generate_answer
    ctxCalls,      \* calls of format_retrieved_context in the current generate_answer
    inputs,        \* history: the raw lines input() returned so far
    gaLog,         \* history: the query of every generate_answer call of the session
    out            \* what chat() printed so far

chunkVars == <<dataFile, cpc, invoices, chunks, outputFile, ccReturned>>
buildVars == <<store, bpc, chunksFile, batch_size, bchunks, bi, reported,
               bReturned, run, prior, firstRun, raisedAt>>
chatVars  == <<collection, session, gaPc, query, n_results, results, outcome,
               prompt, llmCalls, ctxCalls, inputs, gaLog, out>>
vars == <<chunkVars, buildVars, chatVars>>

(***************************************************************************)
(* Bounds of the model.                                                    *)
(***************************************************************************)
MaxRecords == 2
MaxChunks == 3
MaxBatch == 4
MaxInputs == 3
MaxK == 2

(***************************************************************************)
(* Python values: a tag and a payload.  A mapping is the sequence of its   *)
(* (key, value) pairs in iteration order.                                  *)
(***************************************************************************)
PyStr(s)   == [t |-> "str", v |-> s]
PyInt(n)   == [t |-> "int", v |-> n]
PyBool(b)  == [t |-> "bool", v |-> b]
PyNone     == [t |-> "null", v |-> "None"]
PyList(s)  == [t |-> "list", v |-> s]
PyDict(ps) == [t |-> "dict", v |-> ps]

\* Python truth value of a value: what `if value` tests.
Truthy(x) ==
    CASE x.t = "str"  -> x.v # ""
      [] x.t = "int"  -> x.v # 0
      [] x.t = "bool" -> x.v
      [] x.t = "null" -> FALSE
      [] x.t = "list" -> Len(x.v) > 0
      [] x.t = "dict" -> Len(x.v) > 0

\* `key in d` and d[key] for a mapping d.
HasKey(d, key) == \E j \in 1..Len(d.v) : d.v[j][1] = key
GetKey(d, key) == d.v[CHOOSE j \in 1..Len(d.v) : d.v[j][1] = key][2]

(***************************************************************************)
(* create_chunks.py: format_invoice_as_text                                *)
(***************************************************************************)
field_mapping ==
    << <<"company", "Company">>, <<"vendor", "Vendor">>,
       <<"invoice_number", "Invoice Number">>, <<"invoice_date", "Date">>,
       <<"due_date", "Due Date">>, <<"total", "Total Amount">>,
       <<"subtotal", "Subtotal">>, <<"tax", "Tax">>,
       <<"address", "Address">>, <<"items", "Line Items">> >>

InFieldMapping(key) == \E j \in 1..Len(field_mapping) : field_mapping[j][1] = key

\* One element of text_parts: f"{label}: {rendering}".  The rendering keeps
\* how the value was turned into text: ', '.join(str(v) ...), json.dumps(value)
\* or the f-string's str(value).
TextLine(label, how, value) == [label |-> label, how |-> how, value |-> value]

\* Lines 35-46: the line, if any, of one entry of field_mapping.
MappedFieldLines(invoice_data, field, label) ==
    IF ~HasKey(invoice_data, field) THEN <<>>
    ELSE LET value == GetKey(invoice_data, field) IN
         IF value.t = "list"
         THEN (IF Truthy(value) THEN <<TextLine(label, "join", value)>> ELSE <<>>)
         ELSE IF value.t = "dict"
         THEN <<TextLine(label, "json", value)>>
         ELSE IF Truthy(value) THEN <<TextLine(label, "str", value)>> ELSE <<>>

\* Lines 49-51: the line, if any, of one item of invoice_data.
OtherFieldLines(key, value) ==
    IF ~InFieldMapping(key) /\ Truthy(value)
    THEN <<TextLine(key, "str", value)>> ELSE <<>>

RECURSIVE MappedLoop(_, _)
MappedLoop(invoice_data, j) ==
    IF j > Len(field_mapping) THEN <<>>
    ELSE MappedFieldLines(invoice_data, field_mapping[j][1], field_mapping[j][2])
         \o MappedLoop(invoice_data, j + 1)

RECURSIVE OtherLoop(_, _)
OtherLoop(invoice_data, j) ==
    IF j > Len(invoice_data.v) THEN <<>>
    ELSE OtherFieldLines(invoice_data.v[j][1], invoice_data.v[j][2])
         \o OtherLoop(invoice_data, j + 1)

\* The text as the sequence of its lines ("\n".join(text_parts)).
format_invoice_as_text(invoice_data) ==
    MappedLoop(invoice_data, 1) \o OtherLoop(invoice_data, 1)

(***************************************************************************)
(* download_data.py: the records create_invoice_chunks reads.              *)
(***************************************************************************)
InvoiceNames == <<"invoice_0", "invoice_1", "invoice_2", "invoice_3", "invoice_4">>
FileNames    == <<"A.pdf", "B.pdf", "C.pdf", "D.pdf", "E.pdf">>

\* Parsed ground truths (gt_parse) the records of the model carry.
DataChoices ==
    << PyDict(<<>>),
       PyDict(<< <<"total", PyInt(100)>>, <<"vendor", PyStr("Acme")>>,
                 <<"notes", PyStr("")>> >>),
       PyDict(<< <<"tax", PyInt(0)>>, <<"address", PyDict(<<>>)>>,
                 <<"items", PyList(<<>>)>>, <<"due_date", PyNone>> >>),
       PyDict(<< <<"notes", PyStr("net 30")>>,
                 <<"items", PyList(<<PyStr("bolt"), PyInt(2)>>)>>,
                 <<"address", PyDict(<< <<"city", PyStr("Pune")>> >>)>>,
                 <<"currency", PyNone>>, <<"company", PyStr("Globex")>>,
                 <<"paid", PyBool(FALSE)>> >>),
       PyDict(<< <<"summary", PyDict(<<>>)>>,
                 <<"header", PyDict(<< <<"invoice_no", PyStr("17")>> >>)>>,
                 <<"lines", PyList(<<>>)>>, <<"count", PyInt(0)>>,
                 <<"tags", PyList(<<PyStr("x")>>)>> >>) >>

\* Lines 40-48 of download_data.py: the record of dataset item idx.
InvoiceRecord(idx, shape) ==
    [id        |-> InvoiceNames[idx + 1],
     file_name |-> IF shape.named THEN FileNames[idx + 1] ELSE InvoiceNames[idx + 1],
     data      |-> DataChoices[shape.data],
     metadata  |-> [source_index |-> PyInt(idx), has_image |-> PyBool(shape.has_image)]]

RecordShapes == [data : 1..Len(DataChoices), named : BOOLEAN, has_image : BOOLEAN]

RecordLists ==
    UNION { { [j \in 1..n |-> InvoiceRecord(j - 1, f[j])] : f \in [1..n -> RecordShapes] } :
            n \in 0..MaxRecords }

(***************************************************************************)
(* create_chunks.py: create_invoice_chunks                                 *)
(***************************************************************************)
\* Line 77: f"Invoice: {invoice['file_name']}\n\n{text}", as its lines.
FullText(file_name, text) ==
    <<TextLine("Invoice", "str", PyStr(file_name)), TextLine("", "blank", PyNone)>> \o text

\* MakeChunk with the record's metadata mapping kept whole beside its fields.
MakeChunkKeepsRecordMetadata(invoice) ==
    [id       |-> invoice.id,
     text     |-> FullText(invoice.file_name, format_invoice_as_text(invoice.data)),
     metadata |-> PyDict(<< <<"file_name", PyStr(invoice.file_name)>>,
                            <<"source", PyDict(<< <<"source_index", invoice.metadata.source_index>>,
                                                  <<"has_image", invoice.metadata.has_image>> >>)>>,
                            <<"structured_data", invoice.data>> >>)]

\* Lines 74-88: the chunk appended for one invoice.
MakeChunk(invoice) ==
    [id       |-> invoice.id,
     text     |-> FullText(invoice.file_name, format_invoice_as_text(invoice.data)),
     metadata |-> PyDict(<< <<"file_name", PyStr(invoice.file_name)>>,
                            <<"source_index", invoice.metadata.source_index>>,
                            <<"has_image", invoice.metadata.has_image>>,
                            <<"structured_data", invoice.data>> >>)]

\* Lines 65-70: open and parse the data file, start with no chunks.
CC_Load ==
    /\ cpc = "start"
    /\ invoices' = dataFile
    /\ chunks' = <<>>
    /\ cpc' = "loop"
    /\ UNCHANGED <<dataFile, outputFile, ccReturned>>

\* Lines 72-88: one iteration of `for invoice in invoices`.
CC_Loop ==
    /\ cpc = "loop"
    /\ Len(chunks) < Len(invoices)
    /\ chunks' = Append(chunks, MakeChunk(invoices[Len(chunks) + 1]))
    /\ UNCHANGED <<dataFile, cpc, invoices, outputFile, ccReturned>>

\* Lines 91-96: the loop is over; the chunks are written to the output file.
CC_Save ==
    /\ cpc = "loop"
    /\ Len(chunks) = Len(invoices)
    /\ outputFile' = [written |-> TRUE, chunks |-> chunks]
    /\ cpc' = "sample"
    /\ UNCHANGED <<dataFile, invoices, chunks, ccReturned>>

\* Lines 98-102: print chunks[0]['text'][:500] and return; chunks[0] raises
\* IndexError on an empty list.
CC_Sample ==
    /\ cpc = "sample"
    /\ IF Len(chunks) = 0
       THEN /\ cpc' = "raised"
            /\ UNCHANGED ccReturned
       ELSE /\ cpc' = "returned"
            /\ ccReturned' = chunks
    /\ UNCHANGED <<dataFile, invoices, chunks, outputFile>>

(***************************************************************************)
(* build_vectordb.py: build_invoice_vectordb                               *)
(***************************************************************************)
NoCollection    == [exists |-> FALSE, entries |-> <<>>]
EmptyCollection == [exists |-> TRUE, entries |-> <<>>]

\* The chunk files the build is run on: lists of chunks as
\* create_invoice_chunks writes them; an id may occur more than once.
ChunkPool ==
    << MakeChunk(InvoiceRecord(0, [data |-> 2, named |-> TRUE, has_image |-> TRUE])),
       MakeChunk(InvoiceRecord(1, [data |-> 4, named |-> FALSE, has_image |-> FALSE])),
       MakeChunk(InvoiceRecord(2, [data |-> 3, named |-> TRUE, has_image |-> TRUE])) >>

ChunkLists ==
    UNION { { [j \in 1..n |-> ChunkPool[f[j]]] : f \in [1..n -> 1..Len(ChunkPool)] } :
            n \in 0..MaxChunks }

\* Line 71: embedder.encode(texts), per text.
Encode(text) == [model |-> "all-MiniLM-L6-v2", of |-> text]

\* Lines 57-68 and 71: what collection.add receives for one chunk; the metadata
\* is rebuilt from three keys of the chunk's metadata.
EntryOf(chunk) ==
    [id        |-> chunk.id,
     document  |-> chunk.text,
     embedding |-> Encode(chunk.text),
     metadata  |-> PyDict(<< <<"file_name", GetKey(chunk.metadata, "file_name")>>,
                             <<"source_index", GetKey(chunk.metadata, "source_index")>>,
                             <<"has_image", GetKey(chunk.metadata, "has_image")>> >>)]

\* What a collection left by an earlier build of other data may hold.
StaleEntries ==
    << [id |-> "invoice_0", document |-> <<>>, embedding |-> Encode(<<>>),
        metadata |-> PyDict(<< <<"file_name", PyStr("old.pdf")>>,
                               <<"source_index", PyInt(0)>>,
                               <<"has_image", PyBool(FALSE)>> >>)],
       [id |-> "invoice_9", document |-> <<>>, embedding |-> Encode(<<>>),
        metadata |-> PyDict(<< <<"file_name", PyStr("gone.pdf")>>,
                               <<"source_index", PyInt(9)>>,
                               <<"has_image", PyBool(FALSE)>> >>)] >>

PriorStores == {NoCollection, EmptyCollection, [exists |-> TRUE, entries |-> StaleEntries]}

Min(a, b) == IF a < b THEN a ELSE b

\* Batch with the slice one short: chunks[i:i+batch_size-1].
BatchOneShort(cs, i, size) == SubSeq(cs, i + 1, Min(i + size, Len(cs)) - 1)

\* Line 55: chunks[i:i+batch_size].
Batch(cs, i, size) == SubSeq(cs, i + 1, Min(i + size, Len(cs)))

\* Line 54: the next value of i in range(0, len(chunks), batch_size).
NextOffset(i, size) == i + size

\* Lines 74-79: collection.add of one batch, when the store accepts it: the
\* entries are appended in order, one entry per id.
RECURSIVE AddEntries(_, _)
AddEntries(entries, batch) ==
    IF batch = <<>> THEN entries
    ELSE AddEntries(
           IF \E j \in 1..Len(entries) : entries[j].id = Head(batch).id
           THEN entries ELSE Append(entries, EntryOf(Head(batch))),
           Tail(batch))

\* Lines 39-43: delete_collection removes the collection with all its entries.
DeleteCollection(st) == NoCollection

\* CreateCollection as get_or_create_collection: an existing collection is kept.
GetOrCreateCollection(st) == [ok |-> TRUE, store |-> IF st.exists THEN st ELSE EmptyCollection]

\* Lines 46-49: create_collection makes a new, empty collection and raises
\* when one of that name exists.
CreateCollection(st) == [ok |-> ~st.exists, store |-> EmptyCollection]

\* BatchRaises with the error swallowed and the loop going on.
BatchRaisesSwallowed(i, size) == [pc |-> "loop", i |-> NextOffset(i, size)]

\* Lines 54-79: no handler surrounds the provider calls of a batch, so an
\* error raised at offset i leaves the function there.
BatchRaises(i, size) == [pc |-> "aborted", i |-> i]

\* Lines 23-36: parse the chunk file, load the embedder, open the client.
B_Load ==
    /\ bpc = "start"
    /\ bchunks' = chunksFile
    /\ prior' = store
    /\ bpc' = "delete"
    /\ UNCHANGED <<store, chunksFile, batch_size, bi, reported, bReturned, run,
                   firstRun, raisedAt>>

\* Lines 38-43: try delete_collection; whatever it raises is swallowed.
B_Delete ==
    /\ bpc = "delete"
    /\ \/ /\ store.exists
          /\ store' = DeleteCollection(store)
       \/ /\ ~store.exists           \* raises: no such collection
          /\ UNCHANGED store
       \/ /\ store.exists            \* raises for another reason: store untouched
          /\ UNCHANGED store
    /\ bpc' = "create"
    /\ UNCHANGED <<chunksFile, batch_size, bchunks, bi, reported, bReturned, run,
                   prior, firstRun, raisedAt>>

\* Lines 45-49: create_collection; an error propagates.
B_Create ==
    /\ bpc = "create"
    /\ \/ /\ CreateCollection(store).ok
          /\ store' = CreateCollection(store).store
          /\ bpc' = "loop"
       \/ /\ bpc' = "aborted"        \* the name exists, or the store failed
          /\ UNCHANGED store
    /\ bi' = 0
    /\ UNCHANGED <<chunksFile, batch_size, bchunks, reported, bReturned, run,
                   prior, firstRun, raisedAt>>

\* Lines 54-79: one iteration of the batch loop.
B_Batch ==
    /\ bpc = "loop"
    /\ bi < Len(bchunks)
    /\ \/ /\ store' = [store EXCEPT !.entries = AddEntries(@, Batch(bchunks, bi, batch_size))]
          /\ bi' = NextOffset(bi, batch_size)
          /\ UNCHANGED <<bpc, raisedAt>>
       \/ /\ raisedAt' = bi         \* embedder.encode or collection.add raises
          /\ bpc' = BatchRaises(bi, batch_size).pc
          /\ bi' = BatchRaises(bi, batch_size).i
          /\ UNCHANGED store
    /\ UNCHANGED <<chunksFile, batch_size, bchunks, reported, bReturned, run,
                   prior, firstRun>>

\* Lines 81-86: the loop is over; report collection.count() and return.
B_Finish ==
    /\ bpc = "loop"
    /\ bi >= Len(bchunks)
    /\ reported' = Len(store.entries)
    /\ bReturned' = TRUE
    /\ bpc' = "done"
    /\ firstRun' = IF run = 1 THEN [done |-> TRUE, entries |-> store.entries] ELSE firstRun
    /\ UNCHANGED <<store, chunksFile, batch_size, bchunks, bi, run, prior, raisedAt>>

\* Lines 89-96 run again: the same chunk file and collection name.
B_Rerun ==
    /\ bpc \in {"done", "aborted"}
    /\ run = 1
    /\ run' = 2
    /\ bpc' = "start"
    /\ \E size \in 1..MaxBatch : batch_size' = size
    /\ reported' = -1
    /\ bReturned' = FALSE
    /\ raisedAt' = -1
    /\ bi' = 0
    /\ UNCHANGED <<store, chunksFile, bchunks, prior, firstRun>>

(***************************************************************************)
(* query_rag.py: text helpers.  An input line is a sequence of characters. *)
(***************************************************************************)
Whitespace == {" ", "\t"}

\* str.strip(): drop leading and trailing whitespace.
RECURSIVE LStrip(_)
LStrip(s) == IF s # <<>> /\ Head(s) \in Whitespace THEN LStrip(Tail(s)) ELSE s

RECURSIVE RStrip(_)
RStrip(s) ==
    IF s # <<>> /\ s[Len(s)] \in Whitespace THEN RStrip(SubSeq(s, 1, Len(s) - 1)) ELSE s

\* Strip left out: the line as typed.
NoStrip(s) == s

Strip(s) == RStrip(LStrip(s))

\* str.lower() on the characters the model's lines use.
UpperToLower ==
    [c \in {"Q", "U", "I", "T", "E", "X"} |->
        CASE c = "Q" -> "q" [] c = "U" -> "u" [] c = "I" -> "i"
          [] c = "T" -> "t" [] c = "E" -> "e" [] c = "X" -> "x"]

LowerChar(c) == IF c \in DOMAIN UpperToLower THEN UpperToLower[c] ELSE c

Lower(s) == [j \in 1..Len(s) |-> LowerChar(s[j])]

\* Line 113: ['quit', 'exit', 'q'].
ExitWords == { <<"q", "u", "i", "t">>, <<"e", "x", "i", "t">>, <<"q">> }

\* IsExit without lower(): the comparison is case-sensitive.
IsExitCaseSensitive(q) == q \in ExitWords

\* Line 113: query.lower() in ['quit', 'exit', 'q'].
IsExit(q) == Lower(q) \in ExitWords

\* Line 117: `not query`.
IsEmptyQuery(q) == Len(q) = 0

\* What the user may type at the prompt.
InputLines ==
    { <<>>, <<" ", "\t">>,
      <<"q">>, <<" ", "Q", " ">>, <<"Q", "u", "I", "t">>, <<"e", "x", "i", "t", " ">>,
      <<"q", "q">>, <<" ", "t", "a", "x">> }

\* Line 64: the default of n_results.
DefaultNResults == 5

\* Line 73.
FallbackText == "No relevant invoices found in the database."

\* What response.text may be; the provider may also produce the fallback's words.
GeneratedTexts == {"The total is 100.", FallbackText}

(***************************************************************************)
(* query_rag.py: the collection opened in __init__ and retrieve            *)
(***************************************************************************)
\* An entry of a collection some other tool wrote: its metadata has no file_name.
ForeignEntry ==
    [id |-> "doc_7", document |-> <<>>, embedding |-> Encode(<<>>),
     metadata |-> PyDict(<< <<"source", PyStr("scan")>> >>)]

CollectionChoices ==
    { <<>>,
      <<EntryOf(ChunkPool[1])>>,
      <<EntryOf(ChunkPool[1]), EntryOf(ChunkPool[2])>>,
      <<EntryOf(ChunkPool[3]), ForeignEntry>> }

\* Rankings collection.query may return over n entries: distinct positions,
\* best first, no more than n_results of them.
Rankings(n, k) ==
    UNION { { f \in [1..m -> 1..n] : \A a, b \in 1..m : a # b => f[a] # f[b] } :
            m \in 0..Min(n, k) }

\* Lines 46-51: results['documents'][0] and results['metadatas'][0].
ResultsOf(coll, ranking) ==
    [documents |-> [j \in 1..Len(ranking) |-> coll[ranking[j]].document],
     metadatas |-> [j \in 1..Len(ranking) |-> coll[ranking[j]].metadata]]

NoResults == [documents |-> <<>>, metadatas |-> <<>>]

(***************************************************************************)
(* query_rag.py: format_retrieved_context and generate_answer              *)
(***************************************************************************)
\* Line 60: meta['file_name'] raises KeyError when the key is missing.
ContextRaises(res) ==
    \E j \in 1..Len(res.documents) : ~HasKey(res.metadatas[j], "file_name")

\* Lines 55-62: one block per (doc, meta), numbered from 1.
format_retrieved_context(res) ==
    [j \in 1..Len(res.documents) |->
        [ordinal |-> j, file_name |-> GetKey(res.metadatas[j], "file_name"),
         doc |-> res.documents[j]]]

\* Lines 81-90: the prompt holds the context and the query.
BuildPrompt(context, q) == [context |-> context, question |-> q]

NoPrompt == [context |-> <<>>, question |-> <<>>]
NoOutcome == [kind |-> "none", text |-> ""]

\* NoDocuments testing for a missing list instead of an empty one.
NoDocumentsIsNone(documents) == FALSE

\* Line 72: `if not documents`.
NoDocuments(documents) == Len(documents) = 0

\* Entry of generate_answer(q, k): line 66.
EnterGenerateAnswer(q, k) ==
    /\ query' = q
    /\ n_results' = k
    /\ gaPc' = "retrieve"
    /\ results' = NoResults
    /\ outcome' = NoOutcome
    /\ prompt' = NoPrompt
    /\ llmCalls' = 0
    /\ ctxCalls' = 0
    /\ gaLog' = Append(gaLog, q)

\* Lines 69, 42-51: retrieve: encode the query, query the collection.
GA_Retrieve ==
    /\ gaPc = "retrieve"
    /\ \/ \E r \in Rankings(Len(collection), n_results) :
            /\ results' = ResultsOf(collection, r)
            /\ gaPc' = "check"
            /\ UNCHANGED outcome
       \/ /\ outcome' = [kind |-> "raised", text |-> "retrieve failed"]
          /\ gaPc' = "raised"
          /\ UNCHANGED results
    /\ UNCHANGED <<collection, session, query, n_results, prompt, llmCalls, ctxCalls,
                   inputs, gaLog, out>>

\* Lines 71-75: the fallback when nothing was retrieved.
GA_Check ==
    /\ gaPc = "check"
    /\ IF NoDocuments(results.documents)
       THEN /\ outcome' = [kind |-> "returned", text |-> FallbackText]
            /\ gaPc' = "returned"
       ELSE /\ gaPc' = "context"
            /\ UNCHANGED outcome
    /\ UNCHANGED <<collection, session, query, n_results, results, prompt, llmCalls,
                   ctxCalls, inputs, gaLog, out>>

\* Lines 78-90: assemble the context and build the prompt.
GA_Context ==
    /\ gaPc = "context"
    /\ ctxCalls' = ctxCalls + 1
    /\ IF ContextRaises(results)
       THEN /\ outcome' = [kind |-> "raised", text |-> "'file_name'"]
            /\ gaPc' = "raised"
            /\ UNCHANGED prompt
       ELSE /\ prompt' = BuildPrompt(format_retrieved_context(results), query)
            /\ gaPc' = "generate"
            /\ UNCHANGED outcome
    /\ UNCHANGED <<collection, session, query, n_results, results, llmCalls,
                   inputs, gaLog, out>>

\* Lines 93-96: llm.generate_content(prompt); return response.text.
GA_Generate ==
    /\ gaPc = "generate"
    /\ llmCalls' = llmCalls + 1
    /\ \/ \E text \in GeneratedTexts :
            /\ outcome' = [kind |-> "returned", text |-> text]
            /\ gaPc' = "returned"
       \/ /\ outcome' = [kind |-> "raised", text |-> "generation failed"]
          /\ gaPc' = "raised"
    /\ UNCHANGED <<collection, session, query, n_results, results, prompt, ctxCalls,
                   inputs, gaLog, out>>

\* Lines 152-154: generate_answer called directly, with any n_results.
GA_Call ==
    /\ session = "None"
    /\ gaPc \in {"idle", "returned", "raised"}
    /\ Len(gaLog) < MaxInputs
    /\ \E line \in InputLines, k \in 1..MaxK :
          /\ Strip(line) # <<>>
          /\ EnterGenerateAnswer(Strip(line), k)
    /\ UNCHANGED <<collection, session, inputs, out>>

(***************************************************************************)
(* query_rag.py: chat                                                      *)
(***************************************************************************)
\* Lines 111-121: read a line; leave on an exit word, skip an empty line,
\* otherwise call generate_answer(query).
Chat_Read ==
    /\ session = "AwaitingInput"
    /\ Len(inputs) < MaxInputs
    /\ \E line \in InputLines :
          /\ inputs' = Append(inputs, line)
          /\ LET q == Strip(line) IN
             IF IsExit(q)
             THEN /\ out' = Append(out, [kind |-> "Goodbye", text |-> ""])
                  /\ session' = "Terminated"
                  /\ UNCHANGED <<query, n_results, gaPc, results, outcome, prompt,
                                 llmCalls, ctxCalls, gaLog>>
             ELSE IF IsEmptyQuery(q)
             THEN UNCHANGED <<session, out, query, n_results, gaPc, results, outcome,
                              prompt, llmCalls, ctxCalls, gaLog>>
             ELSE /\ session' = "Processing"
                  /\ EnterGenerateAnswer(q, DefaultNResults)
                  /\ UNCHANGED out
    /\ UNCHANGED collection

\* Line 122: print the answer and loop.
Chat_Print ==
    /\ session = "Processing"
    /\ gaPc = "returned"
    /\ out' = Append(out, [kind |-> "Assistant", text |-> outcome.text])
    /\ session' = "AwaitingInput"
    /\ gaPc' = "idle"
    /\ UNCHANGED <<collection, query, n_results, results, outcome, prompt, llmCalls,
                   ctxCalls, inputs, gaLog>>

\* SessionAfterError with the error leaving chat().
SessionAfterErrorEnds == "Terminated"

\* Lines 120-124: the try/except is inside the loop, so the loop goes on.
SessionAfterError == "AwaitingInput"

\* Lines 123-124: except Exception: print the error and loop.
Chat_Except ==
    /\ session = "Processing"
    /\ gaPc = "raised"
    /\ out' = Append(out, [kind |-> "Error", text |-> outcome.text])
    /\ session' = SessionAfterError
    /\ gaPc' = "idle"
    /\ UNCHANGED <<collection, query, n_results, results, outcome, prompt, llmCalls,
                   ctxCalls, inputs, gaLog>>

(***************************************************************************)
(* Specifications: one per stage.                                          *)
(***************************************************************************)
ChunkIdle ==
    /\ dataFile = <<>> /\ cpc = "off" /\ invoices = <<>> /\ chunks = <<>>
    /\ outputFile = [written |-> FALSE, chunks |-> <<>>] /\ ccReturned = <<>>

BuildIdle ==
    /\ store = NoCollection /\ bpc = "off" /\ chunksFile = <<>> /\ batch_size = 1
    /\ bchunks = <<>> /\ bi = 0 /\ reported = -1 /\ bReturned = FALSE /\ run = 1
    /\ prior = NoCollection /\ firstRun = [done |-> FALSE, entries |-> <<>>]
    /\ raisedAt = -1

ChatIdle ==
    /\ collection = <<>> /\ session = "off" /\ gaPc = "idle" /\ query = <<>>
    /\ n_results = DefaultNResults /\ results = NoResults /\ outcome = NoOutcome
    /\ prompt = NoPrompt /\ llmCalls = 0 /\ ctxCalls = 0 /\ inputs = <<>>
    /\ gaLog = <<>> /\ out = <<>>

InitChunks ==
    /\ dataFile \in RecordLists
    /\ cpc = "start" /\ invoices = <<>> /\ chunks = <<>>
    /\ outputFile = [written |-> FALSE, chunks |-> <<>>] /\ ccReturned = <<>>
    /\ BuildIdle /\ ChatIdle

NextChunks ==
    \/ CC_Load /\ UNCHANGED <<buildVars, chatVars>>
    \/ CC_Loop /\ UNCHANGED <<buildVars, chatVars>>
    \/ CC_Save /\ UNCHANGED <<buildVars, chatVars>>
    \/ CC_Sample /\ UNCHANGED <<buildVars, chatVars>>

SpecChunks == InitChunks /\ [][NextChunks]_vars

InitBuild ==
    /\ store \in PriorStores
    /\ bpc = "start"
    /\ chunksFile \in ChunkLists
    /\ batch_size \in 1..MaxBatch
    /\ bchunks = <<>> /\ bi = 0 /\ reported = -1 /\ bReturned = FALSE /\ run = 1
    /\ prior = NoCollection /\ firstRun = [done |-> FALSE, entries |-> <<>>]
    /\ raisedAt = -1
    /\ ChunkIdle /\ ChatIdle

NextBuild ==
    \/ B_Load /\ UNCHANGED <<chunkVars, chatVars>>
    \/ B_Delete /\ UNCHANGED <<chunkVars, chatVars>>
    \/ B_Create /\ UNCHANGED <<chunkVars, chatVars>>
    \/ B_Batch /\ UNCHANGED <<chunkVars, chatVars>>
    \/ B_Finish /\ UNCHANGED <<chunkVars, chatVars>>
    \/ B_Rerun /\ UNCHANGED <<chunkVars, chatVars>>

SpecBuild == InitBuild /\ [][NextBuild]_vars

InitChat ==
    /\ collection \in CollectionChoices
    /\ session \in {"AwaitingInput", "None"}
    /\ gaPc = "idle" /\ query = <<>>
    /\ n_results = DefaultNResults /\ results = NoResults /\ outcome = NoOutcome
    /\ prompt = NoPrompt /\ llmCalls = 0 /\ ctxCalls = 0 /\ inputs = <<>>
    /\ gaLog = <<>> /\ out = <<>>
    /\ ChunkIdle /\ BuildIdle

NextChat ==
    \/ Chat_Read /\ UNCHANGED <<chunkVars, buildVars>>
    \/ Chat_Print /\ UNCHANGED <<chunkVars, buildVars>>
    \/ Chat_Except /\ UNCHANGED <<chunkVars, buildVars>>
    \/ GA_Call /\ UNCHANGED <<chunkVars, buildVars>>
    \/ GA_Retrieve /\ UNCHANGED <<chunkVars, buildVars>>
    \/ GA_Check /\ UNCHANGED <<chunkVars, buildVars>>
    \/ GA_Context /\ UNCHANGED <<chunkVars, buildVars>>
    \/ GA_Generate /\ UNCHANGED <<chunkVars, buildVars>>

SpecChat == InitChat /\ [][NextChat]_vars

(***************************************************************************)
(* Properties of create_chunks.py, under SpecChunks.                       *)
(***************************************************************************)
\* The preferred fields in their fixed order.
PreferredFields ==
    <<"company", "vendor", "invoice_number", "invoice_date", "due_date", "total",
      "subtotal", "tax", "address", "items">>

IsPreferred(key) == \E j \in 1..Len(PreferredFields) : PreferredFields[j] = key

\* Empty or falsy: empty string, empty list, empty mapping, zero, null, False.
IsEmptyValue(x) ==
    \/ x.t = "null"
    \/ x.t = "str" /\ x.v = ""
    \/ x.t = "int" /\ x.v = 0
    \/ x.t = "bool" /\ x.v = FALSE
    \/ x.t \in {"list", "dict"} /\ x.v = <<>>

LabelOfField(field) ==
    field_mapping[CHOOSE j \in 1..Len(field_mapping) : field_mapping[j][1] = field][2]

RECURSIVE ExpectedPreferred(_, _)
ExpectedPreferred(R, j) ==
    IF j > Len(PreferredFields) THEN <<>>
    ELSE (IF HasKey(R, PreferredFields[j]) /\ ~IsEmptyValue(GetKey(R, PreferredFields[j]))
          THEN <<LabelOfField(PreferredFields[j])>> ELSE <<>>)
         \o ExpectedPreferred(R, j + 1)

RECURSIVE ExpectedOthers(_, _)
ExpectedOthers(R, j) ==
    IF j > Len(R.v) THEN <<>>
    ELSE (IF ~IsPreferred(R.v[j][1]) /\ ~IsEmptyValue(R.v[j][2])
          THEN <<R.v[j][1]>> ELSE <<>>)
         \o ExpectedOthers(R, j + 1)

\* The labels of the lines the record should be formatted to, in order.
ExpectedLabels(R) == ExpectedPreferred(R, 1) \o ExpectedOthers(R, 1)

LabelsOf(lines) == [j \in 1..Len(lines) |-> lines[j].label]

\* The formatter's part of a chunk's text: what follows the header and the
\* blank line.
FormattedPart(text) == SubSeq(text, 3, Len(text))

\* C6: the text of every record has exactly one line per non-empty field, the
\* preferred fields first in their fixed order, then the other fields in the
\* record's order, and no line for an empty or falsy field; an empty record
\* gives no line at all.
C6_OneLinePerNonEmptyField ==
    \A j \in 1..Len(chunks) :
        LabelsOf(FormattedPart(chunks[j].text)) = ExpectedLabels(invoices[j].data)

IsScalar(x) == x.t \in {"str", "int", "bool", "null"}

C8_OneChunkPerRecordAndReturns ==
    /\ cpc # "raised"
    /\ cpc = "returned" =>
          /\ outputFile.written /\ outputFile.chunks = ccReturned
          /\ Len(ccReturned) = Len(dataFile)
          /\ \A j \in 1..Len(ccReturned) :
                /\ ccReturned[j].id = dataFile[j].id
                /\ GetKey(ccReturned[j].metadata, "file_name") = PyStr(dataFile[j].file_name)
                /\ ccReturned[j].text =
                      FullText(dataFile[j].file_name, format_invoice_as_text(dataFile[j].data))

(***************************************************************************)
(* Properties of build_vectordb.py, under SpecBuild.                       *)
(***************************************************************************)
IdSet(entries) == { entries[j].id : j \in 1..Len(entries) }

DistinctIds(cs) == \A a, b \in 1..Len(cs) : a # b => cs[a].id # cs[b].id

\* The collection exists and the batch loop has been reached.
Created == bpc \in {"loop", "done"} \/ (bpc = "aborted" /\ raisedAt >= 0)

\* C4: a second build over the same chunk list and name ends with the same
\* count and the same id set as the first; once the collection is recreated
\* it is empty, and it never holds an entry that is not made of a chunk of
\* this build, nor two entries of one id.
C4_RebuildIsIdempotent ==
    /\ (run = 2 /\ bpc = "done" /\ firstRun.done) =>
          /\ Len(store.entries) = Len(firstRun.entries)
          /\ IdSet(store.entries) = IdSet(firstRun.entries)
          /\ reported = Len(firstRun.entries)
    /\ Created =>
          /\ store.exists
          /\ bi = 0 => store.entries = <<>>
          /\ \A j \in 1..Len(store.entries) :
                \E m \in 1..Len(bchunks) : store.entries[j] = EntryOf(bchunks[m])
          /\ Cardinality(IdSet(store.entries)) = Len(store.entries)

\* C4's case: the second build is done after a complete first one, and the
\* collection it found and deleted held the first build's entries.
C4_Witness ==
    /\ run = 2 /\ bpc = "done" /\ firstRun.done
    /\ Len(prior.entries) >= 2 /\ prior.entries = firstRun.entries
    /\ Len(store.entries) >= 2

\* C5: once a provider call of a batch has raised, the build is aborted at
\* that batch: no later batch is added, no count is reported and nothing is
\* returned.
C5_BatchErrorAbortsBuild ==
    /\ raisedAt >= 0 =>
          /\ bpc = "aborted"
          /\ bi = raisedAt
          /\ Len(store.entries) <= raisedAt
    /\ bpc = "aborted" => (~bReturned /\ reported = -1)

\* C5's case: a batch after the first raised, with batches still to come.
C5_Witness ==
    /\ bpc = "aborted" /\ raisedAt > 0
    /\ raisedAt + batch_size < Len(bchunks)
    /\ Len(store.entries) = raisedAt

\* C10: over chunks of pairwise distinct ids, from the creation of the
\* collection on the collection holds exactly the chunks of the batches added
\* so far, in input order, and nothing older: a completed build reports
\* len(chunks), a build aborted at a batch leaves the batches before it.
C10_CollectionIsPrefixOfChunks ==
    (DistinctIds(bchunks) /\ Created) =>
        /\ store.exists
        /\ bi % batch_size = 0
        /\ store.entries = [j \in 1..Min(bi, Len(bchunks)) |-> EntryOf(bchunks[j])]
        /\ bpc = "done" =>
              (reported = Len(bchunks) /\ Len(store.entries) = Len(bchunks))
        /\ bpc = "aborted" => (bi = raisedAt /\ bi < Len(bchunks))

\* C10's case: the second of two batches raised, the first is persisted and
\* the entries of the collection found at the start are gone.
C10_Witness ==
    /\ DistinctIds(bchunks) /\ Len(bchunks) = 3 /\ batch_size = 2
    /\ bpc = "aborted" /\ raisedAt = 2
    /\ prior.entries = StaleEntries
    /\ Len(store.entries) = 2

(***************************************************************************)
(* Properties of query_rag.py, under SpecChat.                             *)
(***************************************************************************)
\* A line that is empty once surrounding whitespace is trimmed.
IsBlankLine(line) == \A j \in 1..Len(line) : line[j] \in {" ", "\t"}

\* The line without its surrounding whitespace.
Trimmed(line) ==
    IF IsBlankLine(line) THEN <<>>
    ELSE LET inked == { j \in 1..Len(line) : line[j] \notin {" ", "\t"} }
             first == CHOOSE j \in inked : \A m \in inked : j <= m
             last  == CHOOSE j \in inked : \A m \in inked : j >= m
         IN SubSeq(line, first, last)

LetterCases == { {"q", "Q"}, {"u", "U"}, {"i", "I"}, {"t", "T"}, {"e", "E"}, {"x", "X"} }

SameIgnoringCase(a, b) ==
    /\ Len(a) = Len(b)
    /\ \A j \in 1..Len(a) : a[j] = b[j] \/ {a[j], b[j]} \in LetterCases

\* The trimmed line is "quit", "exit" or "q" in any letter case.
IsExitLine(line) ==
    \E w \in { <<"q", "u", "i", "t">>, <<"e", "x", "i", "t">>, <<"q">> } :
        SameIgnoringCase(Trimmed(line), w)

InChat == session \in {"AwaitingInput", "Processing", "Terminated"}

\* The lines read so far that are neither blank nor an exit line.
QueryLines == { j \in 1..Len(inputs) : ~IsBlankLine(inputs[j]) /\ ~IsExitLine(inputs[j]) }

\* C1: an exit line, read at any point of the session, is the last line read:
\* the session is Terminated right after it, "Goodbye!" is the last thing
\* printed, and generate_answer was called for no exit line.
C1_ExitLineTerminates ==
    InChat =>
        \A j \in 1..Len(inputs) :
            IsExitLine(inputs[j]) =>
                /\ j = Len(inputs)
                /\ session = "Terminated"
                /\ gaPc = "idle"
                /\ Len(gaLog) = Cardinality(QueryLines)
                /\ \A m \in 1..Len(gaLog) : ~IsExitLine(gaLog[m])
                /\ out # <<>> /\ out[Len(out)].kind = "Goodbye"

\* C1's case: an exit word in upper case, with spaces around it, read after a
\* query that failed and an empty line.
C1_Witness ==
    /\ session = "Terminated"
    /\ Len(inputs) = 3
    /\ inputs[3] = <<" ", "Q", " ">>
    /\ \E j \in 1..Len(out) : out[j].kind = "Error"
    /\ \E j \in 1..2 : IsBlankLine(inputs[j])

\* C2: an error raised inside generate_answer is caught: the session is
\* Terminated only after an exit line, every generate_answer call that ended
\* has its answer or its error printed, and after a failed query the session
\* is back in AwaitingInput with the error as the last thing printed.
C2_ErrorsDoNotEndSession ==
    InChat =>
        /\ session = "Terminated" => (inputs # <<>> /\ IsExitLine(inputs[Len(inputs)]))
        /\ gaPc = "raised" => session = "Processing"
        /\ session = "AwaitingInput" =>
              /\ gaPc = "idle"
              /\ Len(out) = Len(gaLog)
              /\ outcome.kind = "raised" =>
                    out[Len(out)] = [kind |-> "Error", text |-> outcome.text]
              /\ outcome.kind = "returned" =>
                    out[Len(out)] = [kind |-> "Assistant", text |-> outcome.text]

\* C2's case: a failed query, then an answered one, then a failed one, and
\* the session awaits input.
C2_Witness ==
    /\ session = "AwaitingInput"
    /\ Len(out) = 3
    /\ out[1].kind = "Error" /\ out[2].kind = "Assistant" /\ out[3].kind = "Error"
    /\ out[1].text # out[3].text

\* C3: when nothing was retrieved generate_answer returns the fallback text
\* without calling the generation provider or assembling a context; the
\* provider is called at most once in a call, only with documents retrieved,
\* and exactly once when the call returns with documents retrieved.
C3_FallbackWithoutGeneration ==
    /\ llmCalls <= 1 /\ ctxCalls <= 1
    /\ Len(results.documents) = 0 => (llmCalls = 0 /\ ctxCalls = 0)
    /\ (gaPc = "returned" /\ Len(results.documents) = 0) =>
          outcome = [kind |-> "returned", text |-> FallbackText]
    /\ (gaPc = "returned" /\ Len(results.documents) > 0) => llmCalls = 1
    /\ gaPc \in {"retrieve", "check", "context"} => llmCalls = 0

\* C3's case: a direct call with n_results = 1 on a collection that holds
\* entries retrieved nothing and returned the fallback.
C3_Witness ==
    /\ session = "None" /\ gaPc = "returned"
    /\ n_results = 1 /\ Len(collection) = 2
    /\ results.documents = <<>>
    /\ outcome.text = FallbackText /\ llmCalls = 0

\* C9: an empty line is a no-op: generate_answer has been called once per
\* line that is neither blank nor an exit line, nothing is printed for a blank
\* line, and right after a blank line the session awaits input.
C9_EmptyLineIsNoOp ==
    InChat =>
        /\ Len(gaLog) = Cardinality(QueryLines)
        /\ session # "Terminated" =>
              Len(out) = Cardinality(QueryLines) - (IF session = "Processing" THEN 1 ELSE 0)
        /\ (inputs # <<>> /\ IsBlankLine(inputs[Len(inputs)])) =>
              (session = "AwaitingInput" /\ gaPc = "idle")

\* C9's case: three empty lines in a row, one of them of whitespace only.
C9_Witness ==
    /\ session = "AwaitingInput"
    /\ Len(inputs) = 3
    /\ \A j \in 1..3 : IsBlankLine(inputs[j])
    /\ \E j \in 1..3 : inputs[j] # <<>>
    /\ out = <<>> /\ gaLog = <<>>

====
